---- MODULE Spec2Model ----
(***************************************************************************)
(* cairotft: animated widgets (BaseAnimatedWidget, BlinkIcon, Marquee)     *)
(* driven by the callbacks they register on the display's event loop.      *)
(*                                                                         *)
(* One widget is modelled per behaviour; its class is chosen in Init.      *)
(* Time is counted in ticks.  A scheduled callback carries the number of   *)
(* ticks left before it is due; it may run once that number is <= 0 and    *)
(* the loop runs it at most MaxLate ticks late.  The marquee's clock is    *)
(* kept as elapsed = time.time() - _first_time.  In Spec, FairSpec and     *)
(* MarqueeSpec the display is one whose loop the widget reaches under the  *)
(* attribute it uses (loop for BaseAnimatedWidget, io_loop for BlinkIcon   *)
(* and Marquee), so every call_soon and call_later registers its callback; *)
(* in TftWidgetSpec the display is a TftDisplay, which has loop only.      *)
(*                                                                         *)
(* The display itself (TftDisplay: blit, fps_call, run, close), the        *)
(* transition functions (transitions.py), the loop of BounceTransition.pos *)
(* and SVGImage._scale_to_fit have specifications of their own (TftSpec,   *)
(* EaseSpec, BounceSpec, ScaleSpec), over their own variables.             *)
(***************************************************************************)
EXTENDS Integers, Sequences, FiniteSets, TLC

VARIABLES
    kind,                   \* class of the widget
    _stop, _showing,        \* the two flags every widget owns
    on_time, off_time,      \* BlinkIcon durations (ticks)
    interval_time,          \* BaseAnimatedWidget / Marquee frame interval
    interval_arg,           \* the interval_time the constructor was given
    io_loop,                \* the display object has an attribute io_loop
    pending,                \* callbacks registered on the event loop
    text, width, step, smooth, transition,      \* Marquee parameters
    max_offset, _pos, elapsed, _should_scroll, _transition_time,
    _shrinked_text,
    text_color, background_color, _old_text_color, _old_background_color,
    count,                  \* what has happened so far (saturating)
    last,                   \* what the last operation did
    fps, _blit_flag,        \* TftDisplay: forced fps, redraw requested
    buffer, screen,         \* frame held by the memory buffer / the screen
    _fbmem,                 \* releases of the mapping and of the descriptor
    run_at,                 \* where TftDisplay.run() is, or how it ended
    calls,                  \* display calls so far (saturating)
    done,                   \* what the last display operation did
    variant, arg, ret,      \* a transition class, a progress, a returned value
    bounce,                 \* BounceTransition.pos: where it is, its locals
    image, frame, enlarge,  \* SVGImage._scale_to_fit: its arguments
    size                    \* and the size it returned

flags == <<_stop, _showing>>
settings == <<kind, on_time, off_time, interval_time, interval_arg, io_loop,
              text, width, step, smooth, transition>>
display == <<fps, _blit_flag, buffer, screen, _fbmem, run_at, calls, done>>
scaling == <<image, frame, enlarge, size>>
easing == <<variant, arg, ret, bounce, scaling>>
\* what no operation of a widget changes
params == <<settings, display, easing>>
scroll == <<max_offset, _pos, elapsed, _should_scroll, _transition_time,
            _shrinked_text>>
colors == <<text_color, background_color, _old_text_color,
            _old_background_color>>
\* what no operation of the display or of a transition changes
widget == <<settings, flags, scroll, colors, count, last>>
vars == <<params, flags, pending, scroll, colors, count, last>>

----------------------------------------------------------------------------
(* Bounds of the model *)

\* callbacks that may be registered at once (start() is refused beyond it)
MaxPending == 2
\* ticks by which the loop may run a due callback late
MaxLate == 0
\* the counters of `count' saturate here
MaxCount == 2
\* a square root that is not rational is cut after 1/Precision
Precision == 100
\* frames the application draws
MaxFrame == 2
\* tests of its condition after which the loop of BounceTransition.pos is
\* given up
MaxTests == 6
\* widths and heights of images and frames
MaxSize == 4

(* Inputs *)

Kinds == {"base", "blink", "marquee"}
\* BaseAnimatedWidget: a subclass that gives draw(), and the class itself
BaseKinds == {"base", "abstract"}
OnTimes == {1}
OffTimes == {2}
Intervals == {1}
Texts == {<<"a", "b">>, <<"a", "b", "c">>}
BoxWidths == {2}
Colors == {"white", "black"}
\* step and transition, chosen together
Scrollings == {<<1, <<"Linear", "ease_in">>>>, <<2, <<"Quad", "ease_out">>>>}

\* x_advance of one character, in pixels (the font is the caller's)
CharW == 1
\* self._first_time = None
NoTime == -1
\* self._transition_time = None
NoDuration == <<>>

----------------------------------------------------------------------------
(* Rationals <<n, d>> with d > 0, for the progress and the eased value *)

Rat(n, d) == <<n, d>>

\* (in GCD, Reduce and the operations the arguments are bound once, as elements of a
\* singleton, so that each is computed once)
RECURSIVE GCD(_, _)
GCD(m, n) ==
    IF n = 0
    THEN m
    ELSE CHOOSE g \in {GCD(y, x % y) : x \in {m}, y \in {n}} : TRUE

Lowest(x, g) == <<x[1] \div g, x[2] \div g>>

\* the same number in lowest terms
Reduce(a) ==
    CHOOSE r \in {Lowest(x, GCD(IF x[1] >= 0 THEN x[1] ELSE -x[1], x[2])) :
                      x \in {a}} : TRUE

RatSub(a, b) ==
    CHOOSE r \in {Reduce(<<x[1] * y[2] - y[1] * x[2], x[2] * y[2]>>) :
                      x \in {a}, y \in {b}} : TRUE
RatAdd(a, b) ==
    CHOOSE r \in {Reduce(<<x[1] * y[2] + y[1] * x[2], x[2] * y[2]>>) :
                      x \in {a}, y \in {b}} : TRUE
RatMul(a, b) ==
    CHOOSE r \in {Reduce(<<x[1] * y[1], x[2] * y[2]>>) :
                      x \in {a}, y \in {b}} : TRUE
RatLeq(a, b) == a[1] * b[2] <= b[1] * a[2]
RatGt(a, b) == a[1] * b[2] > b[1] * a[2]
RatGeq(a, b) == a[1] * b[2] >= b[1] * a[2]

\* faulty variant: rounding towards minus infinity
PyInt_floor(a) == a[1] \div a[2]

\* Python's int(): truncation towards zero
PyInt(a) == IF a[1] >= 0 THEN a[1] \div a[2] ELSE -((-a[1]) \div a[2])

RatEq(a, b) == Reduce(a) = Reduce(b)

\* the largest whole number not above a
Floor(a) == a[1] \div a[2]

(* math *)

\* faulty variant: the product a * n
RatPow_times(a, n) == RatMul(a, Rat(n, 1))

\* math.pow(a, n), n a whole number >= 1
RECURSIVE RatPow(_, _)
RatPow(a, n) == IF n = 1 THEN a ELSE RatMul(a, RatPow(a, n - 1))

RECURSIVE IntPow2(_)
IntPow2(n) == IF n = 0 THEN 1 ELSE 2 * IntPow2(n - 1)

\* math.pow(2, x), for the x that are whole numbers
Pow2(x) ==
    CASE x[1] % x[2] = 0 /\ x[1] >= 0 -> Rat(IntPow2(x[1] \div x[2]), 1)
      [] x[1] % x[2] = 0 /\ x[1] < 0 -> Rat(1, IntPow2((-x[1]) \div x[2]))

RECURSIVE Newton(_, _)
Newton(n, x) ==
    LET y == (x + n \div x) \div 2
    IN  IF y >= x THEN x ELSE Newton(n, y)

\* the largest whole number whose square is not above n
Isqrt(n) == IF n = 0 THEN 0 ELSE Newton(n, n)

\* math.sqrt(a): exact when a is the square of a rational, and cut after
\* 1/Precision otherwise
Sqrt(a) == Rat(Isqrt(a[1] * a[2] * Precision * Precision), a[2] * Precision)

\* math.sin(math.acos(q)), for -1 <= q <= 1
SinAcos(q) == Sqrt(RatSub(Rat(1, 1), RatMul(q, q)))

\* math.cos(x * math.pi), for the x >= 0 that are multiples of 1/6 or of
\* 1/4: k counts the twelfths of pi
CosPi(x) ==
    LET k == ((12 * x[1]) \div x[2]) % 24
        whole == (12 * x[1]) % x[2] = 0
        half == Rat(1, 2)
        root == Sqrt(Rat(3, 4))
        diag == Sqrt(Rat(1, 2))
        minus(a) == Rat(-a[1], a[2])
    IN  CASE whole /\ k = 0 -> Rat(1, 1)
          [] whole /\ k \in {2, 22} -> root
          [] whole /\ k \in {3, 21} -> diag
          [] whole /\ k \in {4, 20} -> half
          [] whole /\ k \in {6, 18} -> Rat(0, 1)
          [] whole /\ k \in {8, 16} -> minus(half)
          [] whole /\ k \in {9, 15} -> minus(diag)
          [] whole /\ k \in {10, 14} -> minus(root)
          [] whole /\ k = 12 -> Rat(-1, 1)

(* transitions.py *)

Variants == {"Linear", "Quad", "Cubic", "Quart", "Quint", "Pow", "Expo",
             "Circ", "Sine", "Back", "Bounce", "Elastic"}

\* BounceTransition.pos: progress >= (7 - 4 * p_a) / 11
Bounce_reached(progress, p_a) ==
    RatGeq(progress,
           RatMul(RatSub(Rat(7, 1), RatMul(Rat(4, 1), p_a)), Rat(1, 11)))

\* p_b * p_b - math.pow((11 - 6 * p_a - 11 * progress) / 4, 2)
Bounce_value(progress, p_a, p_b) ==
    RatSub(RatMul(p_b, p_b),
           RatPow(RatMul(RatSub(RatSub(Rat(11, 1), RatMul(Rat(6, 1), p_a)),
                                RatMul(Rat(11, 1), progress)),
                         Rat(1, 4)), 2))

\* faulty variant: p_a is left as it is
Bounce_a_stays(p_a, p_b) == p_a

\* p_a += p_b
Bounce_next_a(p_a, p_b) == RatAdd(p_a, p_b)

\* faulty variant: p_b is left as it is
Bounce_b_stays(p_b) == p_b

\* p_b /= 2
Bounce_next_b(p_b) == RatMul(p_b, Rat(1, 2))

\* the loop of BounceTransition.pos, run to its end
RECURSIVE Bounce(_, _, _)
Bounce(progress, p_a, p_b) ==
    IF Bounce_reached(progress, p_a)
    THEN Bounce_value(progress, p_a, p_b)
    ELSE Bounce(progress, Bounce_next_a(p_a, p_b), Bounce_next_b(p_b))

\* cls.pos(progress) of each subclass of BaseTransition
pos(cls, progress) ==
    CASE cls = "Linear" -> progress
      [] cls = "Quad" -> RatPow(progress, 2)
      [] cls = "Cubic" -> RatPow(progress, 3)
      [] cls = "Quart" -> RatPow(progress, 4)
      [] cls = "Quint" -> RatPow(progress, 5)
      [] cls = "Pow" -> RatPow(progress, 6)
      [] cls = "Expo" ->
            Pow2(RatMul(Rat(8, 1), RatSub(progress, Rat(1, 1))))
      [] cls = "Circ" ->
            RatSub(Rat(1, 1), SinAcos(RatSub(progress, Rat(1, 1))))
      [] cls = "Sine" ->
            RatSub(Rat(1, 1), CosPi(RatMul(progress, Rat(1, 2))))
      [] cls = "Back" ->
            \* 2.618 * progress - 1.618
            RatMul(RatPow(progress, 2),
                   RatSub(RatMul(Rat(1309, 500), progress), Rat(809, 500)))
      [] cls = "Bounce" -> Bounce(progress, Rat(0, 1), Rat(1, 1))
      [] cls = "Elastic" ->
            RatMul(Pow2(RatMul(Rat(10, 1), RatSub(progress, Rat(1, 1)))),
                   CosPi(RatMul(Rat(20, 3), progress)))

\* faulty variant: the transition is applied backwards
ease_in_backwards(cls, progress) == pos(cls, RatSub(Rat(1, 1), progress))

ease_in(cls, progress) == pos(cls, progress)

\* faulty variant: the wrapper calls the pos of LinearTransition
ease_out_of_linear(cls, progress) ==
    RatSub(Rat(1, 1), pos("Linear", RatSub(Rat(1, 1), progress)))

ease_out(cls, progress) == RatSub(Rat(1, 1), pos(cls, RatSub(Rat(1, 1), progress)))

\* faulty variant: the first branch is taken below 0.5 only
ease_in_out_below_half(cls, progress) ==
    IF ~RatGeq(progress, Rat(1, 2))
    THEN RatMul(pos(cls, RatMul(Rat(2, 1), progress)), Rat(1, 2))
    ELSE RatSub(Rat(2, 1),
                RatMul(pos(cls, RatMul(Rat(2, 1), RatSub(Rat(1, 1), progress))),
                       Rat(1, 2)))

ease_in_out(cls, progress) ==
    IF RatLeq(progress, Rat(1, 2))
    THEN RatMul(pos(cls, RatMul(Rat(2, 1), progress)), Rat(1, 2))
    ELSE RatSub(Rat(2, 1),
                RatMul(pos(cls, RatMul(Rat(2, 1), RatSub(Rat(1, 1), progress))),
                       Rat(1, 2)))

\* self.transition(progress): the bound classmethod given to the Marquee
Transition(tr, progress) ==
    CASE tr[2] = "ease_in" -> ease_in(tr[1], progress)
      [] tr[2] = "ease_out" -> ease_out(tr[1], progress)
      [] tr[2] = "ease_in_out" -> ease_in_out(tr[1], progress)

----------------------------------------------------------------------------
(* The event loop *)

Inc(n) == IF n < MaxCount THEN n + 1 ELSE n

Remove(q, i) == SubSeq(q, 1, i - 1) \o SubSeq(q, i + 1, Len(q))

\* a registered callback: its name, the ticks left before it is due, and
\* whether call_soon registered it
Soon(cb) == [cb |-> cb, d |-> 0, soon |-> TRUE]
Later(delay, cb) == [cb |-> cb, d |-> delay, soon |-> FALSE]

\* loop.call_soon(cb)
call_soon(q, cb) == Append(q, Soon(cb))

\* faulty variant: the delay is dropped
call_later_at_once(q, delay, cb) == Append(q, Later(0, cb))

\* loop.call_later(delay, cb)
call_later(q, delay, cb) == Append(q, Later(delay, cb))

Idle == [op |-> "init", stopped |-> FALSE, shown |-> FALSE, first |-> FALSE,
         draw |-> 0, paint |-> 0, blit |-> 0, sched |-> <<>>,
         changed |-> FALSE, scrolled |-> FALSE, late |-> FALSE,
         no_loop |-> FALSE, raised |-> "none"]

Effect(op) == [Idle EXCEPT !.op = op, !.stopped = _stop, !.shown = _showing]

\* the same for a callback; first: start() registered it
Callback(op, soon) == [Effect(op) EXCEPT !.first = soon]

\* self.display_object.io_loop.call_soon / call_later: the callbacks q when
\* the display has the attribute, AttributeError and the callbacks as they
\* were when it has not
Via_io_loop(q, rest) == IF io_loop THEN q ELSE rest

\* what the operation did, l.sched being what it asks io_loop for
On_io_loop(l) ==
    IF io_loop
    THEN l
    ELSE [l EXCEPT !.sched = <<>>, !.raised = "AttributeError"]

\* start: calls of start() that armed the widget; since_stop: callbacks run
\* since stop() set the flag; draw, paint, blit: drawing calls issued
Count0 == [start |-> 0, since_stop |-> 0, draw |-> 0, paint |-> 0, blit |-> 0]

\* the counters after a callback that issued the given drawing calls
Fired(draw, paint, blit) ==
    [count EXCEPT !.since_stop = IF _stop THEN Inc(@) ELSE @,
                  !.draw = IF draw > 0 THEN Inc(@) ELSE @,
                  !.paint = IF paint > 0 THEN Inc(@) ELSE @,
                  !.blit = IF blit > 0 THEN Inc(@) ELSE @]

----------------------------------------------------------------------------
(* Text measurement and slicing *)

Max(a, b) == IF a >= b THEN a ELSE b

\* s[p:]
Slice(s, p) ==
    IF p >= 0 THEN SubSeq(s, p + 1, Len(s))
    ELSE SubSeq(s, Max(1, Len(s) + p + 1), Len(s))

Gap == <<" ", " ", " ">>

\* self.full_text = self.text + "   " + self.text
full_text == text \o Gap \o text

\* ctx.text_extents(s): x_advance
x_advance(s) == Len(s) * CharW

\* ctx.text_extents(s): width of the inked box (blanks at the end carry no ink)
RECURSIVE ink_width(_)
ink_width(s) ==
    IF s = <<>> THEN 0
    ELSE IF s[Len(s)] = " " THEN ink_width(SubSeq(s, 1, Len(s) - 1))
    ELSE Len(s) * CharW

\* faulty variant: a text exactly as wide as the box is stripped too
RECURSIVE Strip_when_equal(_)
Strip_when_equal(new_text) ==
    IF x_advance(new_text) >= width
    THEN Strip_when_equal(SubSeq(new_text, 1, Len(new_text) - 1))
    ELSE new_text

\* faulty variant: one character at most is stripped
Strip_once(new_text) ==
    IF x_advance(new_text) > width
    THEN SubSeq(new_text, 1, Len(new_text) - 1)
    ELSE new_text

\* the loop of _shrink_text: strip the last character while the text is too wide
RECURSIVE Strip(_)
Strip(new_text) ==
    IF x_advance(new_text) > width
    THEN Strip(SubSeq(new_text, 1, Len(new_text) - 1))
    ELSE new_text

\* Marquee._shrink_text: the fields it leaves
_shrink_text ==
    LET new_text == IF _pos > 0 THEN Slice(full_text, _pos) ELSE Slice(text, _pos)
        shrinked == Strip(new_text)
    IN  IF shrinked # text
        THEN [shrinked |-> shrinked, should_scroll |-> TRUE,
              transition_time |-> Rat(interval_time * Len(text \o Gap), step),
              max_offset |-> max_offset]
        ELSE [shrinked |-> shrinked, should_scroll |-> _should_scroll,
              transition_time |-> _transition_time,
              max_offset |-> max_offset]

\* faulty variant: the duration of the transition leaves the step out
_smooth_init_buffer_any_step ==
    LET small_text_width == ink_width(text \o Gap)
        smooth_text_width == x_advance(text \o Gap)
    IN  IF small_text_width > width
        THEN [shrinked |-> _shrinked_text, should_scroll |-> TRUE,
              transition_time |-> Rat(interval_time * smooth_text_width, 1),
              max_offset |-> smooth_text_width]
        ELSE [shrinked |-> _shrinked_text, should_scroll |-> _should_scroll,
              transition_time |-> _transition_time,
              max_offset |-> smooth_text_width]

\* Marquee._smooth_init_buffer: the fields it leaves
_smooth_init_buffer ==
    LET small_text_width == ink_width(text \o Gap)
        smooth_text_width == x_advance(text \o Gap)
    IN  IF small_text_width > width
        THEN [shrinked |-> _shrinked_text, should_scroll |-> TRUE,
              transition_time |-> Rat(interval_time * smooth_text_width, step),
              max_offset |-> smooth_text_width]
        ELSE [shrinked |-> _shrinked_text, should_scroll |-> _should_scroll,
              transition_time |-> _transition_time,
              max_offset |-> smooth_text_width]

\* Marquee.color_changed()
color_changed ==
    _old_text_color # text_color \/ _old_background_color # background_color

\* `self.color_changed' as show() reads it: the bound method, which is truthy
color_changed_attr == TRUE

----------------------------------------------------------------------------
(* Construction *)

\* fps=None
NoFps == -1
\* ticks in a second: a tick is the default interval_time of the Marquee
TicksPerSecond == 20
\* forced fps the display is built with
FpsValues == {NoFps, 10, 20}
\* what a zero-filled buffer shows
Empty == -1
\* the frame blank_screen() leaves with its default colour (0, 0, 0, 1)
Black == 0
\* the frames the application draws
Frames == 1..MaxFrame

Calls0 == [copy |-> 0, close |-> 0]

\* what one display operation did
Still == [op |-> "init", force |-> FALSE, copy |-> 0, close |-> 0]

\* TftDisplay.__init__(fps=f)
TftDisplay_init(f) ==
    /\ fps = f
    /\ _blit_flag = FALSE
    /\ buffer = Empty
    /\ screen = Empty
    /\ _fbmem = [mmap |-> 0, fid |-> 0]
    /\ run_at = "init"
    /\ calls = Calls0
    /\ done = Still

\* interval_time=None
NoInterval == 0
\* interval_time given to BaseAnimatedWidget
IntervalArgs == {NoInterval, 1, 3}

\* 1 / self.display_object.fps, in ticks
FramePeriod(f) == TicksPerSecond \div f

\* faulty variant: the shorter of the two with a forced fps
BaseAnimatedWidget_interval_shorter(f, given) ==
    IF f # NoFps /\ given # NoInterval
    THEN IF given <= FramePeriod(f) THEN given ELSE FramePeriod(f)
    ELSE IF f # NoFps /\ given = NoInterval
    THEN FramePeriod(f)
    ELSE IF f = NoFps /\ given # NoInterval
    THEN given
    ELSE TicksPerSecond

\* BaseAnimatedWidget.__init__: the interval_time it keeps (ticks)
BaseAnimatedWidget_interval(f, given) ==
    IF f # NoFps /\ given # NoInterval
    THEN Max(given, FramePeriod(f))
    ELSE IF f # NoFps /\ given = NoInterval
    THEN FramePeriod(f)
    ELSE IF f = NoFps /\ given # NoInterval
    THEN given
    ELSE TicksPerSecond

\* no transition method was called
NoReturn == [method |-> "none", value |-> Rat(0, 1)]

\* BounceTransition.pos is not running
NotCalled ==
    [at |-> "idle", value |-> Rat(0, 1), p_a |-> Rat(0, 1), p_b |-> Rat(1, 1),
     tests |-> 0]

\* _scale_to_fit has returned nothing
NoSize == <<>>

\* no image is scaled
NoScaling ==
    /\ image = <<1, 1>>
    /\ frame = <<1, 1>>
    /\ enlarge = FALSE
    /\ size = NoSize

NoCall ==
    /\ variant = "Linear"
    /\ arg = Rat(0, 1)
    /\ ret = NoReturn
    /\ bounce = NotCalled
    /\ NoScaling

\* no widget was built
NoWidget ==
    /\ kind = "none"
    /\ _stop = FALSE
    /\ _showing = FALSE
    /\ pending = <<>>
    /\ count = Count0
    /\ last = Idle
    /\ on_time = 0 /\ off_time = 0 /\ interval_time = 0
    /\ interval_arg = NoInterval
    /\ io_loop = FALSE
    /\ text = <<>> /\ width = 0 /\ step = 1 /\ smooth = FALSE
    /\ transition = <<"Linear", "ease_in">>
    /\ text_color = "black" /\ background_color = "white"
    /\ _old_text_color = "black" /\ _old_background_color = "white"
    /\ max_offset = 0
    /\ _pos = 0
    /\ elapsed = NoTime
    /\ _should_scroll = FALSE
    /\ _transition_time = NoDuration
    /\ _shrinked_text = <<>>

\* one widget, on a display without forced fps
Init ==
    /\ TftDisplay_init(NoFps)
    /\ NoCall
    /\ kind \in Kinds
    /\ _stop = FALSE
    /\ _showing = FALSE
    /\ pending = <<>>
    /\ count = Count0
    /\ last = Idle
    /\ IF kind = "blink"
       THEN on_time \in OnTimes /\ off_time \in OffTimes
       ELSE on_time = 0 /\ off_time = 0
    /\ io_loop = TRUE
    /\ interval_arg \in IF kind = "blink" THEN {NoInterval} ELSE Intervals
    /\ interval_time = CASE kind = "blink" -> 0
                          [] kind = "marquee" -> interval_arg
                          [] kind = "base" ->
                                BaseAnimatedWidget_interval(fps, interval_arg)
    /\ IF kind = "marquee"
       THEN /\ text \in Texts
            /\ width \in BoxWidths
            /\ smooth \in BOOLEAN
            /\ \E sc \in Scrollings : step = sc[1] /\ transition = sc[2]
            /\ text_color = "black"
            /\ background_color = "white"
       ELSE /\ text = <<>>
            /\ width = 0
            /\ step = 1
            /\ smooth = FALSE
            /\ transition = <<"Linear", "ease_in">>
            /\ text_color = "black"
            /\ background_color = "white"
    /\ max_offset = Len(text) + 3
    /\ _pos = 0
    /\ elapsed = NoTime
    /\ _should_scroll = FALSE
    /\ _transition_time = NoDuration
    /\ _shrinked_text = text
    /\ _old_text_color = text_color
    /\ _old_background_color = background_color

----------------------------------------------------------------------------
(* BaseAnimatedWidget (widgets/base.py): a subclass that gives draw()     *)
(* (kind "base"), or the class itself (kind "abstract")                    *)

\* faulty variant: start() without its guard
BaseAnimatedWidget_start_always == TRUE

\* start(): if not self._showing
BaseAnimatedWidget_start_arms == ~_showing

BaseAnimatedWidget_start ==
    /\ kind \in BaseKinds
    /\ IF BaseAnimatedWidget_start_arms
       THEN /\ Len(pending) < MaxPending
            /\ _showing' = TRUE
            /\ _stop' = FALSE
            /\ pending' = call_soon(pending, "show")
            /\ count' = [count EXCEPT !.start = Inc(@), !.since_stop = 0]
            /\ last' = [Effect("start") EXCEPT !.sched = <<Soon("show")>>]
       ELSE /\ last' = Effect("start")
            /\ UNCHANGED <<flags, pending, count>>
    /\ UNCHANGED <<params, scroll, colors>>

BaseAnimatedWidget_stop ==
    /\ kind \in BaseKinds
    /\ _stop' = TRUE
    /\ _showing' = FALSE
    /\ count' = [count EXCEPT !.since_stop = IF _stop THEN @ ELSE 0]
    /\ last' = Effect("stop")
    /\ UNCHANGED <<params, pending, scroll, colors>>

\* faulty variant: show() without its check of the stop flag
BaseAnimatedWidget_show_always == TRUE

\* show(): if not self._stop
BaseAnimatedWidget_show_runs == ~_stop

\* faulty variant: draw() taken as given by every class
BaseAnimatedWidget_draw_always == TRUE

\* draw(): overridden by the subclass; BaseAnimatedWidget.draw raises
\* NotImplementedError
BaseAnimatedWidget_draw_given == kind = "base"

\* show(), run by the loop; rest = the other registered callbacks,
\* soon = start() registered this one
BaseAnimatedWidget_show(rest, soon) ==
    /\ kind \in BaseKinds
    /\ IF BaseAnimatedWidget_show_runs
       THEN /\ _showing' = TRUE
            /\ IF BaseAnimatedWidget_draw_given
               THEN /\ pending' = call_later(rest, interval_time, "show")
                    /\ last' = [Callback("show", soon) EXCEPT
                                  !.draw = 1,
                                  !.sched = <<Later(interval_time, "show")>>]
               ELSE \* draw() raises: the rest of show() is not run
                    /\ pending' = rest
                    /\ last' = [Callback("show", soon) EXCEPT
                                  !.draw = 1,
                                  !.raised = "NotImplementedError"]
            /\ count' = Fired(1, 0, 0)
            /\ UNCHANGED _stop
       ELSE /\ pending' = rest
            /\ count' = Fired(0, 0, 0)
            /\ last' = Callback("show", soon)
            /\ UNCHANGED flags
    /\ UNCHANGED <<params, scroll, colors>>

----------------------------------------------------------------------------
(* BlinkIcon (widgets/blink_icon.py) *)

\* start(): if not self._showing
BlinkIcon_start_arms == ~_showing

BlinkIcon_start ==
    /\ kind = "blink"
    /\ IF BlinkIcon_start_arms
       THEN /\ Len(pending) < MaxPending
            /\ _showing' = TRUE
            /\ _stop' = FALSE
            /\ pending' = Via_io_loop(call_soon(pending, "show"), pending)
            /\ count' = [count EXCEPT !.start = Inc(@), !.since_stop = 0]
            /\ last' = On_io_loop([Effect("start") EXCEPT
                                     !.sched = <<Soon("show")>>])
       ELSE /\ last' = Effect("start")
            /\ UNCHANGED <<flags, pending, count>>
    /\ UNCHANGED <<params, scroll, colors>>

BlinkIcon_stop ==
    /\ kind = "blink"
    /\ _stop' = TRUE
    /\ _showing' = FALSE
    /\ count' = [count EXCEPT !.since_stop = IF _stop THEN @ ELSE 0]
    /\ last' = Effect("stop")
    /\ UNCHANGED <<params, pending, scroll, colors>>

\* faulty variant: show() without its check of the stop flag
BlinkIcon_show_always == TRUE

\* show(): if not self._stop
BlinkIcon_show_runs == ~_stop

\* show(): svg_icon.draw, blit, hide after on_time
BlinkIcon_show(rest, soon) ==
    /\ kind = "blink"
    /\ IF BlinkIcon_show_runs
       THEN /\ pending' = Via_io_loop(call_later(rest, on_time, "hide"), rest)
            /\ count' = Fired(1, 0, 1)
            /\ last' = On_io_loop([Callback("show", soon) EXCEPT
                                     !.draw = 1, !.blit = 1,
                                     !.sched = <<Later(on_time, "hide")>>])
       ELSE /\ pending' = rest
            /\ count' = Fired(0, 0, 0)
            /\ last' = Callback("show", soon)
    /\ UNCHANGED <<params, flags, scroll, colors>>

\* faulty variant: hide() without its check of the stop flag
BlinkIcon_hide_always == TRUE

\* hide(): if not self._stop
BlinkIcon_hide_runs == ~_stop

\* hide(): background rectangle, blit, show after off_time
BlinkIcon_hide(rest, soon) ==
    /\ kind = "blink"
    /\ IF BlinkIcon_hide_runs
       THEN /\ pending' = Via_io_loop(call_later(rest, off_time, "show"), rest)
            /\ count' = Fired(0, 1, 1)
            /\ last' = On_io_loop([Callback("hide", soon) EXCEPT
                                     !.paint = 1, !.blit = 1,
                                     !.sched = <<Later(off_time, "show")>>])
            /\ UNCHANGED flags
       ELSE /\ _showing' = FALSE
            /\ pending' = rest
            /\ count' = Fired(0, 0, 0)
            /\ last' = Callback("hide", soon)
            /\ UNCHANGED _stop
    /\ UNCHANGED <<params, scroll, colors>>

----------------------------------------------------------------------------
(* Marquee (widgets/marquee.py) *)

\* faulty variant: start() refused while the stop flag is set
Marquee_start_unless_stopped == ~_showing /\ ~_stop

\* start(): if not self._showing
Marquee_start_arms == ~_showing

Marquee_start ==
    /\ kind = "marquee"
    /\ IF Marquee_start_arms
       THEN /\ Len(pending) < MaxPending
            /\ _showing' = TRUE
            /\ _stop' = FALSE
            /\ elapsed' = NoTime
            /\ LET r == IF smooth THEN _smooth_init_buffer ELSE _shrink_text
               IN  /\ _shrinked_text' = r.shrinked
                   /\ _should_scroll' = r.should_scroll
                   /\ _transition_time' = r.transition_time
                   /\ max_offset' = r.max_offset
            /\ pending' = Via_io_loop(call_soon(pending, "show"), pending)
            /\ count' = [count EXCEPT !.start = Inc(@), !.since_stop = 0]
            /\ last' = On_io_loop([Effect("start") EXCEPT
                                     !.sched = <<Soon("show")>>])
            /\ UNCHANGED _pos
       ELSE /\ last' = Effect("start")
            /\ UNCHANGED <<flags, pending, count, scroll>>
    /\ UNCHANGED <<params, colors>>

Marquee_stop ==
    /\ kind = "marquee"
    /\ _stop' = TRUE
    /\ _showing' = FALSE
    /\ elapsed' = NoTime
    /\ count' = [count EXCEPT !.since_stop = IF _stop THEN @ ELSE 0]
    /\ last' = Effect("stop")
    /\ UNCHANGED <<params, pending, colors, max_offset, _pos, _should_scroll,
                   _transition_time, _shrinked_text>>

\* show(): if not self._stop and self._showing
Marquee_show_runs == ~_stop /\ _showing

\* faulty variant: the offset of the end of the cycle
recycle_pos_end ==
    PyInt(RatMul(Rat(max_offset, 1), Transition(transition, Rat(1, 1))))

\* show(): self._pos = int(self.max_offset * self.transition(0)), on recycling
recycle_pos == PyInt(RatMul(Rat(max_offset, 1), Transition(transition, Rat(0, 1))))

\* faulty variant: the next show is registered whatever no_loop is
Marquee_show_loops_always(no_loop) == TRUE

\* faulty variant: the next show is never registered
Marquee_show_loops_never(no_loop) == FALSE

\* show(): if not no_loop
Marquee_show_loops(no_loop) == ~no_loop

\* show(ctx, no_loop); rest = the registered callbacks but this one,
\* soon = start() registered this one
Marquee_show(rest, soon, no_loop) ==
    /\ kind = "marquee"
    /\ IF Marquee_show_runs
       THEN LET repaint == color_changed_attr \/ _should_scroll
                r == IF repaint /\ ~smooth
                     THEN _shrink_text
                     ELSE [shrinked |-> _shrinked_text,
                           should_scroll |-> _should_scroll,
                           transition_time |-> _transition_time,
                           max_offset |-> max_offset]
                tt == r.transition_time
                first == IF elapsed # NoTime THEN elapsed ELSE 0
                transition_offset ==
                    Transition(transition, Rat(first * tt[2], tt[1]))
                recycle == RatGt(Rat(first, 1), tt)
            IN  /\ _shrinked_text' = r.shrinked
                /\ _should_scroll' = r.should_scroll
                /\ _transition_time' = tt
                /\ IF r.should_scroll
                   THEN IF recycle
                        THEN /\ elapsed' = 0
                             /\ _pos' = recycle_pos
                        ELSE /\ elapsed' = first
                             /\ _pos' = PyInt(RatMul(Rat(max_offset, 1),
                                                     transition_offset))
                   ELSE UNCHANGED <<elapsed, _pos>>
                /\ _old_text_color' = text_color
                /\ _old_background_color' = background_color
                /\ pending' = IF Marquee_show_loops(no_loop)
                              THEN Via_io_loop(call_later(rest, interval_time,
                                                          "show"), rest)
                              ELSE rest
                /\ count' = IF repaint THEN Fired(1, 1, 1) ELSE Fired(0, 0, 0)
                /\ LET l == [Callback("show", soon) EXCEPT
                              !.draw = IF repaint THEN 1 ELSE 0,
                              !.paint = IF repaint THEN 1 ELSE 0,
                              !.blit = IF repaint THEN 1 ELSE 0,
                              !.sched = IF Marquee_show_loops(no_loop)
                                        THEN <<Later(interval_time, "show")>>
                                        ELSE <<>>,
                              !.changed = color_changed,
                              !.scrolled = _should_scroll,
                              !.late = r.should_scroll /\ recycle,
                              !.no_loop = no_loop]
                   IN  last' = IF Marquee_show_loops(no_loop)
                               THEN On_io_loop(l)
                               ELSE l
                /\ UNCHANGED <<max_offset, text_color, background_color>>
       ELSE /\ pending' = rest
            /\ count' = Fired(0, 0, 0)
            /\ last' = [Callback("show", soon) EXCEPT !.no_loop = no_loop]
            /\ UNCHANGED <<scroll, colors>>
    /\ UNCHANGED <<params, flags>>

Marquee_change_color(color) ==
    /\ kind = "marquee"
    /\ _old_text_color' = text_color
    /\ text_color' = color
    /\ last' = Effect("change_color")
    /\ UNCHANGED <<params, flags, pending, scroll, count, background_color,
                   _old_background_color>>

Marquee_change_background(color) ==
    /\ kind = "marquee"
    /\ _old_background_color' = background_color
    /\ background_color' = color
    /\ last' = Effect("change_background")
    /\ UNCHANGED <<params, flags, pending, scroll, count, text_color,
                   _old_text_color>>

----------------------------------------------------------------------------
(* The loop: time passes, due callbacks run *)

Tick ==
    /\ pending # <<>>
    /\ \A i \in DOMAIN pending : pending[i].d > -MaxLate
    /\ pending' = [i \in DOMAIN pending |-> [pending[i] EXCEPT !.d = @ - 1]]
    /\ elapsed' = IF elapsed = NoTime THEN NoTime ELSE elapsed + 1
    /\ UNCHANGED <<params, flags, colors, count, last, max_offset, _pos,
                   _should_scroll, _transition_time, _shrinked_text>>

Run ==
    \E i \in DOMAIN pending :
        /\ pending[i].d <= 0
        /\ LET rest == Remove(pending, i)
               soon == pending[i].soon
           IN  \/ pending[i].cb = "show" /\ BaseAnimatedWidget_show(rest, soon)
               \/ pending[i].cb = "show" /\ BlinkIcon_show(rest, soon)
               \/ pending[i].cb = "hide" /\ BlinkIcon_hide(rest, soon)
               \* registered as (self.show, ctx): no_loop takes its default
               \/ pending[i].cb = "show" /\ Marquee_show(rest, soon, FALSE)

Start == BaseAnimatedWidget_start \/ BlinkIcon_start \/ Marquee_start

Stop == BaseAnimatedWidget_stop \/ BlinkIcon_stop \/ Marquee_stop

ChangeColors ==
    \E color \in Colors :
        Marquee_change_color(color) \/ Marquee_change_background(color)

Next == Start \/ Stop \/ Run \/ Tick \/ ChangeColors

Spec == Init /\ [][Next]_vars

\* The same widgets with the colours left alone and one scrolling setting:
\* run_forever() runs every due callback, and time passes
FairInit == Init /\ step = 1

FairNext == Start \/ Stop \/ Run \/ Tick

FairSpec == FairInit /\ [][FairNext]_vars /\ WF_vars(Run) /\ WF_vars(Tick)

----------------------------------------------------------------------------
(* The widgets built on a TftDisplay, as the examples of docs/ build them *)

TftWidgetKinds == {"widget", "base", "abstract", "blink", "marquee"}

\* BaseWidget.start(): no flag is looked at
BaseWidget_start ==
    /\ kind = "widget"
    /\ Len(pending) < MaxPending
    /\ pending' = call_soon(pending, "show")
    /\ last' = [Effect("start") EXCEPT !.sched = <<Soon("show")>>]
    /\ UNCHANGED <<params, flags, scroll, colors, count>>

\* BaseWidget.stop(): pass
BaseWidget_stop ==
    /\ kind = "widget"
    /\ last' = Effect("stop")
    /\ UNCHANGED <<params, flags, pending, scroll, colors, count>>

\* BaseWidget.show(), run by the loop: self.draw(ctx), which raises
\* NotImplementedError in BaseWidget
BaseWidget_show ==
    \E i \in DOMAIN pending :
        /\ kind = "widget"
        /\ pending[i].d <= 0
        /\ pending' = Remove(pending, i)
        /\ count' = Fired(1, 0, 0)
        /\ last' = [Callback("show", pending[i].soon) EXCEPT
                      !.draw = 1,
                      !.raised = "NotImplementedError"]
        /\ UNCHANGED <<params, flags, scroll, colors>>

\* TftDisplay(fps=f), then the constructor of the widget with
\* display_object the display
TftWidgetInit ==
    /\ \E f \in FpsValues : TftDisplay_init(f)
    /\ NoCall
    /\ io_loop = FALSE
    /\ kind \in TftWidgetKinds
    /\ _stop = FALSE
    /\ _showing = FALSE
    /\ pending = <<>>
    /\ count = Count0
    /\ last = Idle
    /\ IF kind = "blink"
       THEN on_time \in OnTimes /\ off_time \in OffTimes
       ELSE on_time = 0 /\ off_time = 0
    /\ interval_arg \in CASE kind \in {"widget", "blink"} -> {NoInterval}
                          [] kind = "marquee" -> Intervals
                          [] kind \in BaseKinds -> IntervalArgs
    /\ interval_time = CASE kind \in {"widget", "blink"} -> 0
                          [] kind = "marquee" -> interval_arg
                          [] kind \in BaseKinds ->
                                BaseAnimatedWidget_interval(fps, interval_arg)
    /\ IF kind = "marquee"
       THEN /\ text \in Texts
            /\ width \in BoxWidths
            /\ smooth \in BOOLEAN
       ELSE /\ text = <<>>
            /\ width = 0
            /\ smooth = FALSE
    /\ step = 1
    /\ transition = <<"Linear", "ease_in">>
    /\ text_color = "black"
    /\ background_color = "white"
    /\ max_offset = Len(text) + 3
    /\ _pos = 0
    /\ elapsed = NoTime
    /\ _should_scroll = FALSE
    /\ _transition_time = NoDuration
    /\ _shrinked_text = text
    /\ _old_text_color = text_color
    /\ _old_background_color = background_color

TftWidgetNext ==
    \/ Start
    \/ Stop
    \/ Run
    \/ Tick
    \/ BaseWidget_start
    \/ BaseWidget_stop
    \/ BaseWidget_show

TftWidgetSpec == TftWidgetInit /\ [][TftWidgetNext]_vars

----------------------------------------------------------------------------
(* The Marquee alone, with more scrolling settings and show() also called *)
(* by the application *)

\* the text of the scenario: 147 pixels, 150 with the gap
LongText == [i \in 1..147 |-> "a"]

\* step, interval_time and transition
MarqueeScrollings ==
    {<<1, 1, <<"Linear", "ease_in">>>>,
     <<2, 1, <<"Linear", "ease_in">>>>,
     <<1, 2, <<"Linear", "ease_in">>>>,
     <<2, 2, <<"Linear", "ease_in">>>>,
     <<1, 1, <<"Back", "ease_in">>>>,
     <<1, 1, <<"Cubic", "ease_in_out">>>>}

MarqueeInit ==
    /\ TftDisplay_init(NoFps)
    /\ NoCall
    /\ kind = "marquee"
    /\ _stop = FALSE
    /\ _showing = FALSE
    /\ pending = <<>>
    /\ count = Count0
    /\ last = Idle
    /\ on_time = 0 /\ off_time = 0
    /\ io_loop = TRUE
    /\ \/ /\ text \in Texts
          /\ width \in BoxWidths
          /\ smooth \in BOOLEAN
          /\ \E sc \in MarqueeScrollings :
                step = sc[1] /\ interval_time = sc[2] /\ transition = sc[3]
       \/ /\ text = LongText
          /\ width = 100
          /\ smooth = TRUE
          /\ step = 1 /\ interval_time = 1
          /\ transition = <<"Linear", "ease_in">>
       \* a box of no width
       \/ /\ text = <<"a", "b">>
          /\ width = 0
          /\ smooth = FALSE
          /\ step = 1 /\ interval_time = 1
          /\ transition = <<"Linear", "ease_in">>
    /\ interval_arg = interval_time
    /\ text_color = "black"
    /\ background_color = "white"
    /\ max_offset = Len(text) + 3
    /\ _pos = 0
    /\ elapsed = NoTime
    /\ _should_scroll = FALSE
    /\ _transition_time = NoDuration
    /\ _shrinked_text = text
    /\ _old_text_color = text_color
    /\ _old_background_color = background_color

\* show(ctx, no_loop) called by the application
Marquee_show_called ==
    \E no_loop \in BOOLEAN :
        /\ no_loop \/ Len(pending) < MaxPending
        /\ Marquee_show(pending, FALSE, no_loop)

MarqueeNext ==
    Marquee_start \/ Marquee_stop \/ Run \/ Tick \/ Marquee_show_called

MarqueeSpec == MarqueeInit /\ [][MarqueeNext]_vars

----------------------------------------------------------------------------
(* TftDisplay (tft.py) *)

\* faulty variant: the buffer is copied only when forced
TftDisplay_blit_copies_forced(force) == force

\* blit(): if self.fps is None or force
TftDisplay_blit_copies(force) == fps = NoFps \/ force

\* blit(force) with frame buf in the memory buffer: the fields it leaves
blit(force, buf) ==
    IF TftDisplay_blit_copies(force)
    THEN [screen |-> buf, flag |-> _blit_flag, copy |-> 1]
    ELSE [screen |-> screen, flag |-> TRUE, copy |-> 0]

\* the mapping and the descriptor are there
Open == _fbmem.mmap = 0 /\ _fbmem.fid = 0

Copied(n) == [calls EXCEPT !.copy = IF n > 0 THEN Inc(@) ELSE @]

\* blit(force), called by the application or by a widget
TftDisplay_blit(force) ==
    /\ Open
    /\ LET b == blit(force, buffer)
       IN  /\ screen' = b.screen
           /\ _blit_flag' = b.flag
           /\ calls' = Copied(b.copy)
           /\ done' = [Still EXCEPT !.op = "blit", !.force = force,
                                    !.copy = b.copy]
    /\ UNCHANGED <<widget, easing, pending, fps, buffer, _fbmem, run_at>>

\* drawing on self.ctx: frame f is in the memory buffer
Draw(f) ==
    /\ Open
    /\ buffer' = f
    /\ done' = [Still EXCEPT !.op = "draw"]
    /\ UNCHANGED <<widget, easing, pending, fps, _blit_flag, screen, _fbmem,
                   run_at, calls>>

\* draw_interface() of a subclass: it draws the interface and calls blit()
TftDisplay_draw_interface(rest) ==
    \E f \in Frames :
        LET b == blit(FALSE, f)
        IN  /\ buffer' = f
            /\ screen' = b.screen
            /\ _blit_flag' = b.flag
            /\ calls' = Copied(b.copy)
            /\ done' = [Still EXCEPT !.op = "draw_interface", !.copy = b.copy]
            /\ pending' = rest
            /\ UNCHANGED <<widget, easing, fps, _fbmem, run_at>>

\* faulty variant: every fps tick copies the buffer
TftDisplay_fps_call_copies_always == TRUE

\* fps_call(): if self._blit_flag
TftDisplay_fps_call_copies == _blit_flag

\* fps_call()
TftDisplay_fps_call(rest) ==
    /\ IF TftDisplay_fps_call_copies
       THEN LET b == blit(TRUE, buffer)
            IN  /\ screen' = b.screen
                /\ calls' = Copied(b.copy)
                /\ done' = [Still EXCEPT !.op = "fps_call", !.force = TRUE,
                                         !.copy = b.copy]
       ELSE /\ done' = [Still EXCEPT !.op = "fps_call"]
            /\ UNCHANGED <<screen, calls>>
    /\ _blit_flag' = FALSE
    /\ pending' = call_later(rest, TicksPerSecond \div fps, "fps_call")
    /\ UNCHANGED <<widget, easing, fps, buffer, _fbmem, run_at>>

\* run(): if self.fps
TftDisplay_run_forces_fps == fps # NoFps /\ fps # 0

\* run(), up to loop.run_forever()
TftDisplay_run ==
    /\ run_at = "init"
    /\ run_at' = "run_forever"
    /\ pending' = IF TftDisplay_run_forces_fps
                  THEN call_later(call_soon(pending, "draw_interface"),
                                  TicksPerSecond \div fps, "fps_call")
                  ELSE call_soon(pending, "draw_interface")
    /\ done' = [Still EXCEPT !.op = "run"]
    /\ UNCHANGED <<widget, easing, fps, _blit_flag, buffer, screen, _fbmem,
                   calls>>

\* close(): blank_screen(self.ctx), then linuxfb.close_fbmem(self._fbmem);
\* the fields it leaves
close ==
    LET b == blit(FALSE, Black)
    IN  [buffer |-> Black, screen |-> b.screen, flag |-> b.flag,
         copy |-> b.copy,
         fbmem |-> [mmap |-> _fbmem.mmap + 1, fid |-> _fbmem.fid + 1]]

\* how loop.run_forever() ends: loop.stop() was called, KeyboardInterrupt
\* is raised in it, another exception is raised in it
Ways == {"stop", "KeyboardInterrupt", "exception"}

\* faulty variant: close() is not reached when the exception is not caught
TftDisplay_run_closes_unless_raised(way) == way # "exception"

\* run(): the finally clause
TftDisplay_run_closes(way) == TRUE

\* run(), from the end of loop.run_forever(): loop.close(), self.close()
TftDisplay_run_ends(way) ==
    /\ run_at = "run_forever"
    /\ run_at' = way
    /\ pending' = <<>>
    /\ IF TftDisplay_run_closes(way)
       THEN /\ buffer' = close.buffer
            /\ screen' = close.screen
            /\ _blit_flag' = close.flag
            /\ _fbmem' = close.fbmem
            /\ calls' = [Copied(close.copy) EXCEPT !.close = Inc(@)]
            /\ done' = [Still EXCEPT !.op = "close", !.copy = close.copy,
                                     !.close = 1]
       ELSE /\ done' = [Still EXCEPT !.op = "raise"]
            /\ UNCHANGED <<buffer, screen, _blit_flag, _fbmem, calls>>
    /\ UNCHANGED <<widget, easing, fps>>

\* loop.run_forever(): a due callback of the display runs
RunDisplay ==
    /\ run_at = "run_forever"
    /\ \E i \in DOMAIN pending :
        /\ pending[i].d <= 0
        /\ LET rest == Remove(pending, i)
           IN  \/ /\ pending[i].cb = "draw_interface"
                  /\ TftDisplay_draw_interface(rest)
               \/ /\ pending[i].cb = "fps_call"
                  /\ TftDisplay_fps_call(rest)

Paint == \E f \in Frames : Draw(f)

Blit == \E force \in BOOLEAN : TftDisplay_blit(force)

Ends == \E way \in Ways : TftDisplay_run_ends(way)

TftInit == NoWidget /\ NoCall /\ \E f \in FpsValues : TftDisplay_init(f)

TftNext == TftDisplay_run \/ RunDisplay \/ Tick \/ Paint \/ Blit \/ Ends

TftSpec == TftInit /\ [][TftNext]_vars

----------------------------------------------------------------------------
(* The transition functions, called on their own *)

Modes == {"ease_in", "ease_out", "ease_in_out"}

Grid(n) == {Rat(k, n) : k \in 0..n}

\* progress values in [0, 1] at which the class is computed exactly, or up
\* to the cut of a square root
Progresses(cls) ==
    CASE cls = "Sine" -> Grid(3) \cup {Rat(1, 2)}
      [] cls = "Elastic" -> Grid(2)
      [] OTHER -> Grid(8)

Returned(method, value) ==
    /\ ret' = [method |-> method, value |-> value]
    /\ UNCHANGED <<widget, pending, display, variant, arg, bounce, scaling>>

BaseTransition_pos == Returned("pos", pos(variant, arg))

BaseTransition_ease_in == Returned("ease_in", ease_in(variant, arg))

BaseTransition_ease_out == Returned("ease_out", ease_out(variant, arg))

BaseTransition_ease_in_out ==
    Returned("ease_in_out", ease_in_out(variant, arg))

EaseInit ==
    /\ NoWidget
    /\ TftDisplay_init(NoFps)
    /\ variant \in Variants
    /\ arg \in Progresses(variant)
    /\ ret = NoReturn
    /\ bounce = NotCalled
    /\ NoScaling

EaseNext ==
    \/ BaseTransition_pos
    \/ BaseTransition_ease_in
    \/ BaseTransition_ease_out
    \/ BaseTransition_ease_in_out

EaseSpec == EaseInit /\ [][EaseNext]_vars

----------------------------------------------------------------------------
(* BounceTransition.pos, one test of its loop at a time *)

\* progress values: in [0, 1], the thresholds 7/11 and 3/11, and values
\* outside [0, 1] on both sides
BounceProgresses ==
    {Rat(k, 32) : k \in -4..35} \cup {Rat(7, 11), Rat(3, 11), Rat(-1, 11)}

\* value = 0; p_a = 0; p_b = 1
BounceTransition_pos_called ==
    /\ bounce.at = "idle"
    /\ bounce' = [NotCalled EXCEPT !.at = "while"]
    /\ ret' = NoReturn
    /\ UNCHANGED <<widget, pending, display, variant, arg, scaling>>

\* one turn of `while True'
BounceTransition_pos_loop ==
    /\ bounce.at = "while"
    /\ bounce.tests < MaxTests
    /\ bounce' =
            IF Bounce_reached(arg, bounce.p_a)
            THEN \* value = ...; break
                 [bounce EXCEPT
                     !.value = Bounce_value(arg, bounce.p_a, bounce.p_b),
                     !.tests = @ + 1,
                     !.at = "return"]
            ELSE [bounce EXCEPT
                     !.p_a = Bounce_next_a(bounce.p_a, bounce.p_b),
                     !.p_b = Bounce_next_b(bounce.p_b),
                     !.tests = @ + 1]
    /\ UNCHANGED <<widget, pending, display, variant, arg, ret, scaling>>

\* return value
BounceTransition_pos_returns ==
    /\ bounce.at = "return"
    /\ bounce' = [bounce EXCEPT !.at = "idle"]
    /\ ret' = [method |-> "pos", value |-> bounce.value]
    /\ UNCHANGED <<widget, pending, display, variant, arg, scaling>>

BounceInit ==
    /\ NoWidget
    /\ TftDisplay_init(NoFps)
    /\ variant = "Bounce"
    /\ arg \in BounceProgresses
    /\ ret = NoReturn
    /\ bounce = NotCalled
    /\ NoScaling

BounceNext ==
    \/ BounceTransition_pos_called
    \/ BounceTransition_pos_loop
    \/ BounceTransition_pos_returns

\* a call that has started goes on: nothing else runs in between
BounceSpec == BounceInit /\ [][BounceNext]_vars /\ WF_vars(BounceNext)

----------------------------------------------------------------------------
(* SVGImage._scale_to_fit (svg_image.py) *)

Sizes == (1..MaxSize) \X (1..MaxSize)

\* int(x) of a float x >= 0 computed with one rounding: the whole part of
\* the exact value, or one less when the exact value is whole and the
\* float came out just below it (int(9 / (9.0 / 7)) is 6)
PyIntOfFloat(x) ==
    {PyInt(x)} \cup IF x[1] % x[2] = 0 /\ x[1] >= x[2]
                     THEN {PyInt(x) - 1}
                     ELSE {}

Min(a, b) == IF a <= b THEN a ELSE b

\* faulty variant: the branches are taken the other way round
Frame_is_taller(frame_aspect, image_aspect) ==
    RatGt(image_aspect, frame_aspect)

\* if frame_aspect > image_aspect
Frame_is_wider(frame_aspect, image_aspect) ==
    RatGt(frame_aspect, image_aspect)

\* SVGImage._scale_to_fit(image, frame, enlarge): the sizes it can return
_scale_to_fit(p_image, p_frame, p_enlarge) ==
    LET image_width == p_image[1]
        image_height == p_image[2]
        frame_width == p_frame[1]
        frame_height == p_frame[2]
        image_aspect == Rat(image_width, image_height)
        frame_aspect == Rat(frame_width, frame_height)
        max_width == IF ~p_enlarge
                     THEN Min(frame_width, image_width)
                     ELSE frame_width
        max_height == IF ~p_enlarge
                      THEN Min(frame_height, image_height)
                      ELSE frame_height
    IN  IF Frame_is_wider(frame_aspect, image_aspect)
        THEN {<<w, max_height>> :
                w \in PyIntOfFloat(RatMul(Rat(max_height, 1), image_aspect))}
        ELSE {<<max_width, h>> :
                h \in PyIntOfFloat(RatMul(Rat(max_width, 1),
                                          Rat(image_height, image_width)))}

SVGImage_scale_to_fit ==
    /\ size' \in _scale_to_fit(image, frame, enlarge)
    /\ UNCHANGED <<widget, pending, display, variant, arg, ret, bounce,
                   image, frame, enlarge>>

ScaleInit ==
    /\ NoWidget
    /\ TftDisplay_init(NoFps)
    /\ variant = "Linear"
    /\ arg = Rat(0, 1)
    /\ ret = NoReturn
    /\ bounce = NotCalled
    /\ image \in Sizes
    /\ frame \in Sizes
    /\ enlarge \in BOOLEAN
    /\ size = NoSize

ScaleNext == SVGImage_scale_to_fit

ScaleSpec == ScaleInit /\ [][ScaleNext]_vars

----------------------------------------------------------------------------
(* Claims *)

\* the width of the text as rendered
TextWidth == x_advance(text)

Callbacks == {"show", "hide"}

\* the callback that ran last issued no drawing call and registered nothing
Silent(l) == l.draw = 0 /\ l.paint = 0 /\ l.blit = 0 /\ l.sched = <<>>

\* C1: once stop() has set the flag (and until start() clears it) the widget
\* is not showing, every callback that runs only leaves the loop without
\* drawing, blitting or registering anything, and eventually none is pending.
C1_StopMakesInert ==
    /\ [](_stop => ~_showing)
    /\ [][(_stop /\ Run) =>
            /\ Silent(last')
            /\ Len(pending') = Len(pending) - 1
            /\ ~_showing' /\ _stop'
            /\ count'.draw = count.draw /\ count'.paint = count.paint
            /\ count'.blit = count.blit]_vars
    /\ (_stop ~> (pending = <<>> \/ ~_stop))

\* a stopped widget whose pending callbacks have all run
C1_Witness ==
    _stop /\ pending = <<>> /\ count.since_stop >= 1 /\ last.op \in Callbacks

\* C2: start() on a showing widget changes nothing and registers nothing;
\* start() on a widget that is not showing sets showing, clears stop and
\* registers exactly one show callback with call_soon.
C2_StartArmsOnce ==
    [][Start =>
        IF _showing
        THEN UNCHANGED <<params, flags, pending, scroll, colors, count>>
             /\ last'.sched = <<>>
        ELSE /\ _showing' /\ ~_stop'
             /\ pending' = Append(pending, Soon("show"))
             /\ last'.sched = <<Soon("show")>>]_vars

\* start() was called on a widget that was showing, with one callback pending
C2_Witness ==
    last.op = "start" /\ last.shown /\ _showing /\ Len(pending) = 1

\* C3: BaseAnimatedWidget.show with the stop flag set leaves showing false,
\* draws nothing and registers nothing; otherwise it draws once and registers
\* exactly one show after interval_time.
C3_BaseShowCycle ==
    [][(kind = "base" /\ Run) =>
        IF _stop
        THEN /\ ~_showing'
             /\ Silent(last')
             /\ Len(pending') = Len(pending) - 1
        ELSE /\ last'.draw = 1
             /\ last'.sched = <<Later(interval_time, "show")>>
             /\ Len(pending') = Len(pending)
             /\ pending'[Len(pending')] = Later(interval_time, "show")]_vars

\* both kinds of invocation have taken place: draws were issued, then a
\* callback saw the stop flag
C3_Witness ==
    kind = "base" /\ last.op = "show" /\ last.stopped /\ count.draw >= 2

\* C4: BlinkIcon, start() then stop() before the first callback runs: once
\* that callback has run, showing is false, no icon draw, background paint or
\* blit was ever issued and no callback is pending.
C4_StartThenStop ==
    (kind = "blink" /\ count.start = 1 /\ last.op = "show" /\ last.first
        /\ last.stopped)
    => /\ ~_showing
       /\ count.draw = 0 /\ count.paint = 0 /\ count.blit = 0
       /\ Silent(last)
       /\ pending = <<>>

\* the first callback of the first run has seen the stop flag
C4_Witness ==
    kind = "blink" /\ count.start = 1 /\ last.op = "show" /\ last.first
        /\ last.stopped

\* C5: after stop(), and until the next start(), at most one callback of the
\* widget runs.
C5_AtMostOneAfterStop == _stop => count.since_stop <= 1

\* C6: start() after stop() sets showing, clears stop and registers a first
\* callback, whether or not the callback of the previous run is still
\* pending; from then on every callback that runs re-registers itself (and
\* draws, for BaseAnimatedWidget and BlinkIcon), and a first one does run.
C6_Restart ==
    /\ [][(Start /\ _stop) =>
            /\ _showing' /\ ~_stop'
            /\ pending' = Append(pending, Soon("show"))]_vars
    /\ [][(~_stop /\ Run) =>
            /\ Len(last'.sched) = 1 /\ ~last'.sched[1].soon
            /\ Len(pending') = Len(pending)
            /\ kind # "marquee" => last'.draw + last'.paint = 1]_vars
    /\ ((last.op = "start" /\ last.stopped)
          ~> (_stop \/ (last.op \in Callbacks /\ last.sched # <<>>)))

\* restarted while the callback of the previous run was pending, and running
C6_Witness ==
    /\ count.start >= 2 /\ ~_stop /\ Len(pending) = 2
    /\ last.op \in Callbacks /\ last.sched # <<>>

\* C7: a BlinkIcon started once and not stopped has one callback pending;
\* show draws the icon, blits once and registers hide after on_time, hide
\* paints the background, blits once and registers show after off_time, and
\* the first callback is show.
C7_BlinkAlternates ==
    /\ [][(kind = "blink" /\ count.start = 1 /\ ~_stop /\ Run) =>
            /\ Len(pending) = 1
            /\ IF pending[1].cb = "show"
               THEN /\ last'.op = "show"
                    /\ last'.draw = 1 /\ last'.paint = 0 /\ last'.blit = 1
                    /\ pending' = <<Later(on_time, "hide")>>
               ELSE /\ last'.op = "hide"
                    /\ last'.draw = 0 /\ last'.paint = 1 /\ last'.blit = 1
                    /\ pending' = <<Later(off_time, "show")>>]_vars
    /\ []((kind = "blink" /\ count.start = 1 /\ ~_stop /\ count.blit = 0)
            => (Len(pending) = 1 /\ pending[1].cb = "show" /\ pending[1].soon))

\* Visible, Hidden, Visible have taken place in the first run
C7_Witness ==
    /\ kind = "blink" /\ count.start = 1 /\ ~_stop
    /\ last.op = "show" /\ count.draw >= 2 /\ count.paint >= 1

\* C8: a Marquee draw cycle that follows an earlier draw repaints and blits
\* exactly when a colour changed since that draw or should_scroll is true.
C8_RepaintOnlyWhenNeeded ==
    (kind = "marquee" /\ last.op = "show" /\ ~last.stopped /\ last.shown
        /\ count.blit >= 2)
    => ((last.draw + last.paint + last.blit > 0)
            <=> (last.changed \/ last.scrolled))

\* C9: should_scroll changes in start() only; once the Marquee was started it
\* is true exactly when the text is wider than the box, and a text that fits
\* keeps should_scroll false and the offset 0.
C9_ScrollIffTooWide ==
    /\ []((kind = "marquee" /\ count.start > 0)
            => (_should_scroll <=> TextWidth > width))
    /\ []((kind = "marquee" /\ TextWidth <= width)
            => (~_should_scroll /\ _pos = 0))
    /\ [][_should_scroll' # _should_scroll => Start]_vars

\* a text exactly as wide as the box, after draw cycles
C9_Witness ==
    /\ kind = "marquee" /\ TextWidth = width /\ count.blit >= 2
    /\ last.op = "show" /\ ~_should_scroll

\* C10: a Marquee draw cycle that finds more than transition_duration elapsed
\* since the cycle start makes now the cycle start and sets the offset to
\* int(max_offset * transition(0)).
C10_CycleResets ==
    [][(/\ kind = "marquee" /\ Run
        /\ ~_stop /\ _showing /\ _should_scroll
        /\ elapsed # NoTime
        /\ elapsed * _transition_time[2] > _transition_time[1]) =>
            /\ elapsed' = 0
            /\ _pos' = PyInt(RatMul(Rat(max_offset, 1),
                                    Transition(transition, Rat(0, 1))))]_vars

\* a cycle has just been reset, after the offset had grown
C10_Witness ==
    kind = "marquee" /\ last.op = "show" /\ last.late /\ elapsed = 0 /\ _pos = 0

\* a call of Marquee.show, by the loop or by the application, that goes past
\* the check of the flags
DrawCycle ==
    kind = "marquee" /\ (Run \/ Marquee_show_called) /\ ~_stop /\ _showing

\* the progress of the transition at the end of the step
ProgressAfter ==
    Rat(elapsed' * _transition_time'[2], _transition_time'[1])

\* a number cut to a whole one, towards zero
Trunc(a) == IF a[1] >= 0 THEN Floor(a) ELSE -Floor(Rat(-a[1], a[2]))

\* C11, as stated: after a draw cycle with should_scroll true and no more
\* than transition_duration elapsed, the offset is
\* floor(max_offset * transition(elapsed / transition_duration)).
C11_OffsetIsFloor ==
    [][(/\ DrawCycle
        /\ _should_scroll'
        /\ RatLeq(Rat(elapsed', 1), _transition_time')) =>
            _pos' = Floor(RatMul(Rat(max_offset', 1),
                                 Transition(transition, ProgressAfter)))]_vars

\* C11: after a draw cycle with should_scroll true and no more than
\* transition_duration elapsed, the offset is
\* max_offset * transition(elapsed / transition_duration) cut towards zero:
\* its floor when it is positive, its ceiling when it is negative.
C11_OffsetIsTruncated ==
    [][(/\ DrawCycle
        /\ _should_scroll'
        /\ RatLeq(Rat(elapsed', 1), _transition_time')) =>
            _pos' = Trunc(RatMul(Rat(max_offset', 1),
                                 Transition(transition, ProgressAfter)))]_vars

\* a draw cycle has computed the offset from a negative output of Back
C11_Witness ==
    /\ kind = "marquee" /\ last.op = "show" /\ last.scrolled /\ ~last.late
    /\ transition[1] = "Back" /\ elapsed > 0
    /\ RatGt(Rat(0, 1),
             Transition(transition,
                        Rat(elapsed * _transition_time[2],
                            _transition_time[1])))
    /\ _pos = 0

\* C12: whenever should_scroll is true, transition_duration is set and is
\* interval_time * max_offset / step, max_offset being the characters of the
\* text plus 3 in non-smooth mode and the advance of text plus gap in smooth
\* mode; with step 1, interval_time 0.05 s (one tick) and 150 scrollable
\* pixels of a text wider than the box, a started Marquee has should_scroll
\* true and a transition_duration of 7.5 s.
C12_Duration ==
    /\ (kind = "marquee" /\ _should_scroll)
        => /\ _transition_time # NoDuration
           /\ RatEq(_transition_time, Rat(interval_time * max_offset, step))
           /\ max_offset = IF smooth THEN x_advance(text \o Gap)
                           ELSE Len(text) + 3
    /\ (/\ kind = "marquee" /\ smooth /\ count.start > 0
        /\ step = 1 /\ interval_time = 1
        /\ x_advance(text \o Gap) = 150 /\ TextWidth > width)
        => /\ _should_scroll
           /\ RatEq(RatMul(_transition_time, Rat(1, TicksPerSecond)),
                    Rat(15, 2))

\* the Marquee of the scenario, scrolling
C12_Witness ==
    /\ kind = "marquee" /\ text = LongText /\ width = 100 /\ smooth
    /\ _should_scroll /\ last.op = "show" /\ _pos > 0

\* C13: with LinearTransition.ease_in, a draw cycle that runs k times
\* interval_time after the start of the cycle, and no later than
\* transition_duration, computes the offset k * step.
C13_LinearAdvance ==
    [][(/\ DrawCycle
        /\ transition = <<"Linear", "ease_in">>
        /\ _should_scroll'
        /\ elapsed' % interval_time = 0
        /\ RatLeq(Rat(elapsed', 1), _transition_time')) =>
            _pos' = (elapsed' \div interval_time) * step]_vars

\* the second frame after the start of a cycle, steps of 2 every 2 ticks
C13_Witness ==
    /\ kind = "marquee" /\ transition = <<"Linear", "ease_in">>
    /\ step = 2 /\ interval_time = 2
    /\ last.op = "show" /\ last.scrolled /\ elapsed = 4 /\ _pos = 4

\* C14: Marquee.show on a showing Marquee that is not stopped registers
\* exactly one show after interval_time when no_loop is false and registers
\* nothing when no_loop is true; the callbacks the loop runs have no_loop
\* false.
C14_NoLoop ==
    /\ [][(DrawCycle /\ Run) =>
            /\ ~last'.no_loop
            /\ last'.sched = <<Later(interval_time, "show")>>
            /\ Len(pending') = Len(pending)
            /\ pending'[Len(pending')] = Later(interval_time, "show")]_vars
    /\ [][(DrawCycle /\ Marquee_show_called) =>
            IF last'.no_loop
            THEN last'.sched = <<>> /\ pending' = pending
            ELSE /\ last'.sched = <<Later(interval_time, "show")>>
                 /\ pending' = Append(pending, Later(interval_time, "show"))
         ]_vars
    /\ [][Run => ~last'.no_loop]_vars

\* show(ctx, no_loop=True) was called on a running Marquee
C14_Witness ==
    /\ kind = "marquee" /\ last.op = "show" /\ last.no_loop
    /\ last.shown /\ ~last.stopped /\ last.sched = <<>>
    /\ Len(pending) = 1 /\ count.blit >= 2

\* C15: with a forced fps, blit() without force copies nothing and sets the
\* blit flag; with fps=None, or with force=True, blit() copies the memory
\* buffer to the screen and leaves the blit flag as it was.
C15_BlitModes ==
    [][\A force \in BOOLEAN :
        TftDisplay_blit(force) =>
            IF fps # NoFps /\ ~force
            THEN fps > 0 =>
                    /\ screen' = screen
                    /\ done'.copy = 0
                    /\ calls'.copy = calls.copy
                    /\ _blit_flag'
            ELSE /\ screen' = buffer
                 /\ done'.copy = 1
                 /\ _blit_flag' = _blit_flag]_vars

\* blit() was called with a forced fps: a new frame waits in the buffer
C15_Witness ==
    /\ done.op = "blit" /\ ~done.force /\ fps > 0
    /\ _blit_flag /\ screen # buffer /\ buffer \in Frames

\* C16: however run() ends, close() was executed once by then, the mapping
\* and the descriptor were each released once, and neither before run() ends.
C16_ClosedOnce ==
    /\ [](run_at \in Ways
            => (calls.close = 1 /\ _fbmem = [mmap |-> 1, fid |-> 1]))
    /\ [](run_at \notin Ways => (calls.close = 0 /\ Open))
    /\ [][Ends => done'.close = 1]_vars

\* run() ended on an exception that is not KeyboardInterrupt
C16_Witness ==
    run_at = "exception" /\ done.op = "close" /\ calls.close = 1 /\ ~Open

\* C17: once the loop was stopped and run() has ended, close() has run and
\* the black frame is on the screen.
C17_BlankReachesScreen ==
    run_at = "stop" => (calls.close = 1 /\ screen = Black)

\* C18: ease_in(p) is pos(p) and ease_out(p) is 1 - pos(1 - p), pos being
\* the one of the class the method is called on.
C18_Wrappers ==
    /\ ret.method = "ease_in" => RatEq(ret.value, pos(variant, arg))
    /\ ret.method = "ease_out"
        => RatEq(ret.value,
                 RatSub(Rat(1, 1), pos(variant, RatSub(Rat(1, 1), arg))))

\* ease_out was called on a class whose pos is not the identity
C18_Witness ==
    /\ ret.method = "ease_out" /\ variant = "Back" /\ arg = Rat(3, 8)
    /\ ~RatEq(ret.value, arg)

\* C19: for every class but Back and Elastic, pos(0) = 0 and pos(1) = 1.
C19_Endpoints ==
    (ret.method = "pos" /\ variant \notin {"Back", "Elastic"})
    => /\ RatEq(arg, Rat(0, 1)) => RatEq(ret.value, Rat(0, 1))
       /\ RatEq(arg, Rat(1, 1)) => RatEq(ret.value, Rat(1, 1))

\* C20: for every class but Back and Elastic, ease_in, ease_out and
\* ease_in_out return a value in [0, 1] for every progress in [0, 1].
C20_UnitRange ==
    (ret.method \in Modes /\ variant \notin {"Back", "Elastic"})
    => (RatLeq(Rat(0, 1), ret.value) /\ RatLeq(ret.value, Rat(1, 1)))

----------------------------------------------------------------------------
\* C21: for every transition class, ease_in_out(0.5) is pos(1) / 2: at
\* progress 0.5 the first branch of ease_in_out is the one taken.
C21_MidpointFirstBranch ==
    (ret.method = "ease_in_out" /\ RatEq(arg, Rat(1, 2)))
        => RatEq(ret.value, RatMul(pos(variant, Rat(1, 1)), Rat(1, 2)))

\* ElasticTransition: pos(1) = -0.5, so ease_in_out(0.5) = -0.25
C21_Witness ==
    /\ variant = "Elastic"
    /\ RatEq(arg, Rat(1, 2))
    /\ ret.method = "ease_in_out"
    /\ RatEq(ret.value, Rat(-1, 4))

----------------------------------------------------------------------------
\* a_k and b_k of the search: a_0 = 0, b_0 = 1, a_{k+1} = a_k + b_k,
\* b_{k+1} = b_k / 2, in closed form
SearchA(k) == Rat(2 ^ (k + 1) - 2, 2 ^ k)

SearchB(k) == Rat(1, 2 ^ k)

Threshold(k) ==
    RatMul(RatSub(Rat(7, 1), RatMul(Rat(4, 1), SearchA(k))), Rat(1, 11))

\* the smallest k >= 0 with progress >= (7 - 4 a_k) / 11
SmallestK(progress) ==
    CHOOSE k \in 0..MaxTests :
        /\ RatGeq(progress, Threshold(k))
        /\ \A j \in 0..(k - 1) : ~RatGeq(progress, Threshold(j))

InUnit(progress) ==
    RatGeq(progress, Rat(0, 1)) /\ RatLeq(progress, Rat(1, 1))

\* C22: BounceTransition.pos(progress) is b_k^2 - ((11 - 6 a_k - 11
\* progress) / 4)^2 for the smallest k with progress >= (7 - 4 a_k) / 11;
\* in particular pos(1) = 1.
C22_BounceClosedForm ==
    (bounce.at = "idle" /\ ret.method = "pos")
        => LET k == SmallestK(arg)
               root == RatMul(RatSub(RatSub(Rat(11, 1),
                                            RatMul(Rat(6, 1), SearchA(k))),
                                     RatMul(Rat(11, 1), arg)),
                              Rat(1, 4))
           IN  /\ RatEq(ret.value,
                        RatSub(RatMul(SearchB(k), SearchB(k)),
                               RatMul(root, root)))
               /\ RatEq(arg, Rat(1, 1)) => RatEq(ret.value, Rat(1, 1))

\* pos(1/2) = 15/64, found at k = 1
C22_Witness ==
    /\ bounce.at = "idle"
    /\ ret.method = "pos"
    /\ RatEq(arg, Rat(1, 2))
    /\ bounce.tests = 2
    /\ RatEq(ret.value, Rat(15, 64))

\* C23 as stated: the loop ends for every progress in [0, 1], a_k
\* approaching 1 from below.
C23_ApproachesOne ==
    (InUnit(arg) /\ bounce.at # "idle")
        => (bounce.tests < MaxTests /\ RatLeq(bounce.p_a, Rat(1, 1)))

C23_Searching == InUnit(arg) /\ bounce.at = "while"

C23_Found == bounce.at = "return"

C23_WithinFour ==
    C23_Searching
        => /\ bounce.tests <= 3
           /\ RatEq(bounce.p_a, SearchA(bounce.tests))
           /\ RatGeq(Threshold(bounce.tests), Rat(0, 1))
           /\ RatEq(Threshold(3), Rat(0, 1))

\* C23: the loop of BounceTransition.pos ends for every progress in
\* [0, 1], after at most four tests: a_k = 2 - 2/2^k grows towards 2, and
\* the thresholds (7 - 4 a_k) / 11 = 7/11, 3/11, 1/11, 0 reach 0 at k = 3.
C23_Terminates ==
    /\ []C23_WithinFour
    /\ C23_Searching ~> C23_Found

\* progress 0 is found at the fourth test, with a_3 = 7/4
C23_Witness ==
    /\ RatEq(arg, Rat(0, 1))
    /\ bounce.at = "return"
    /\ bounce.tests = 4
    /\ RatEq(bounce.p_a, Rat(7, 4))

----------------------------------------------------------------------------
\* the exponent of a power variant
Degree(cls) ==
    CASE cls = "Quad" -> 2
      [] cls = "Cubic" -> 3
      [] cls = "Quart" -> 4
      [] cls = "Quint" -> 5
      [] cls = "Pow" -> 6

PowerVariants == {"Quad", "Cubic", "Quart", "Quint", "Pow"}

\* C24: LinearTransition.ease_in(0.25) = 0.25, QuadTransition.ease_in(0.5)
\* = 0.25 and CubicTransition.ease_out(0.5) = 0.875; the power variant of
\* degree n has pos(p) = p^n for n = 2..6, and LinearTransition has
\* pos(p) = p.
C24_PowerVariants ==
    /\ (variant = "Linear" /\ ret.method = "ease_in" /\ RatEq(arg, Rat(1, 4)))
            => RatEq(ret.value, Rat(1, 4))
    /\ (variant = "Quad" /\ ret.method = "ease_in" /\ RatEq(arg, Rat(1, 2)))
            => RatEq(ret.value, Rat(1, 4))
    /\ (variant = "Cubic" /\ ret.method = "ease_out" /\ RatEq(arg, Rat(1, 2)))
            => RatEq(ret.value, Rat(7, 8))
    /\ (variant \in PowerVariants /\ ret.method = "pos")
            => RatEq(ret.value,
                     Rat(arg[1] ^ Degree(variant), arg[2] ^ Degree(variant)))
    /\ (variant = "Linear" /\ ret.method = "pos") => RatEq(ret.value, arg)

\* CubicTransition.ease_out(0.5) = 1 - 0.5^3
C24_Witness ==
    /\ variant = "Cubic"
    /\ ret.method = "ease_out"
    /\ RatEq(arg, Rat(1, 2))
    /\ RatEq(ret.value, Rat(7, 8))

----------------------------------------------------------------------------
\* a draw cycle of a widget whose class does not override draw()
AbstractDrawCycle ==
    \/ kind = "abstract" /\ ~_stop /\ Run
    \/ BaseWidget_show

\* C25: a draw cycle on a widget that does not override draw (BaseWidget,
\* BaseAnimatedWidget) raises NotImplementedError at once: that invocation
\* asks for no blit and registers no next callback.
C25_AbstractDraw ==
    [][AbstractDrawCycle
        => /\ last'.raised = "NotImplementedError"
           /\ last'.blit = 0
           /\ count'.blit = count.blit
           /\ last'.sched = <<>>
           /\ \E i \in DOMAIN pending : pending' = Remove(pending, i)]_vars

\* BaseAnimatedWidget itself was started, its show() ran and raised:
\* nothing is registered any more
C25_Witness ==
    /\ kind = "abstract"
    /\ last.op = "show"
    /\ ~last.stopped
    /\ last.raised = "NotImplementedError"
    /\ pending = <<>>

C27_StartRegisters ==
    (kind \in {"blink", "marquee"} /\ last.op = "start")
        => /\ last.raised = "none"
           /\ _showing => pending # <<>>

----------------------------------------------------------------------------
\* C28: Marquee.color_changed() is true exactly when text_color or
\* background_color differs from the value in effect at the last paint,
\* whatever calls of change_color and change_background were made since
\* (the same new colour set twice included).  Hence a call that sets the
\* colour already set, which paints nothing and changes no colour, leaves
\* the answer of color_changed() as it was.
C28_ChangedSincePaint ==
    [][(/\ kind = "marquee"
        /\ ChangeColors
        /\ text_color' = text_color
        /\ background_color' = background_color)
            => (color_changed' <=> color_changed)]_vars

----------------------------------------------------------------------------
\* a step in which _shrink_text is called: start() arming the widget, or
\* a draw cycle, of a Marquee that is not smooth
ShrinkCall == ~smooth /\ (DrawCycle \/ (Marquee_start /\ ~_showing))

\* the substring _shrink_text starts from
Candidate == IF _pos > 0 THEN Slice(full_text, _pos) ELSE Slice(text, _pos)

Prefix(s, n) == SubSeq(s, 1, n)

\* the length of the longest prefix of s whose advance fits in the box
LongestFit(s) ==
    CHOOSE n \in 0..Len(s) :
        /\ x_advance(Prefix(s, n)) <= width
        /\ \A m \in (n + 1)..Len(s) : x_advance(Prefix(s, m)) > width

\* C29: Marquee._shrink_text (not smooth, box width >= 0) ends after
\* stripping at most as many characters as the substring has, and leaves
\* _shrinked_text the longest prefix of the substring at the current
\* offset whose advance is at most the box width.
C29_ShrinkLongestPrefix ==
    [][(ShrinkCall /\ width >= 0)
        => /\ _shrinked_text' = Prefix(Candidate, LongestFit(Candidate))
           /\ Len(Candidate) - Len(_shrinked_text') \in 0..Len(Candidate)
           /\ x_advance(_shrinked_text') <= width]_vars

\* "c   abc", the text from offset 2, stripped to "c " in a box of 2
C29_Witness ==
    /\ kind = "marquee"
    /\ ~smooth
    /\ text = <<"a", "b", "c">>
    /\ width = 2
    /\ last.op = "show"
    /\ _shrinked_text = <<"c", " ">>

----------------------------------------------------------------------------
\* C30: SVGImage._scale_to_fit(image, frame, enlarge) returns a size that
\* fits inside the frame, for all positive whole image and frame sizes;
\* when enlarge is false the size is not larger than the image in either
\* dimension.
C30_FitsInFrame ==
    size # NoSize
        => /\ size[1] <= frame[1]
           /\ size[2] <= frame[2]
           /\ ~enlarge => (size[1] <= image[1] /\ size[2] <= image[2])

\* an image of 4 x 2 in a frame of 3 x 3, not enlarged: 3 x 1
C30_Witness ==
    /\ image = <<4, 2>>
    /\ frame = <<3, 3>>
    /\ ~enlarge
    /\ size = <<3, 1>>

----------------------------------------------------------------------------
\* C31: whatever the interleaving of start(), stop() and the callbacks
\* that run, at most one callback of the widget is registered on the loop:
\* stop() then start() before the registered callback runs does not begin
\* a second periodic chain.
C31_OneCallbackPending == Len(pending) <= 1

\* C32: after stop() on a BlinkIcon, once its registered callbacks have
\* run, the icon is not left on the display.  With one start() there is one
\* chain, so the hide callback follows the show() that drew the icon; when
\* it runs with the stop flag set and leaves nothing registered, it has to
\* have painted the background over the icon.
C32_HiddenAfterStop ==
    (/\ kind = "blink"
     /\ count.start = 1
     /\ last.op = "hide"
     /\ last.stopped
     /\ pending = <<>>) => last.paint = 1

\* C33: for a BlinkIcon or a Marquee driven through start(), stop() and the
\* callbacks the loop runs, the registrations succeeding: whenever the
\* showing flag is set, a callback of the widget is registered on the loop.
C33_ShowingHasCallback ==
    (kind \in {"blink", "marquee"} /\ io_loop /\ _showing) => pending # <<>>

\* a showing widget whose callback has run and registered its successor
C33_Witness ==
    /\ kind \in {"blink", "marquee"}
    /\ _showing
    /\ last.op \in Callbacks
    /\ last.sched # <<>>
    /\ pending # <<>>

\* C34: in every reachable state of an animated widget (BaseAnimatedWidget,
\* BlinkIcon, Marquee) the stop flag and the showing flag are never both
\* set.
C34_NeverStoppedAndShowing == ~(_stop /\ _showing)

\* stop() has arrived at a showing widget whose callback is still registered
C34_Witness ==
    /\ last.op = "stop"
    /\ last.shown
    /\ _stop
    /\ pending # <<>>

\* C35: in every reachable state of a scrolling Marquee, for Linear and the
\* power variants in any of the three modes, the scroll offset stays
\* between 0 and max_offset.
C35_OffsetInRange ==
    (/\ kind = "marquee"
     /\ _should_scroll
     /\ transition[1] \in {"Linear"} \cup PowerVariants) =>
        (0 <= _pos /\ _pos <= max_offset)

\* C36: on every start() of a Marquee, a restart after stop() in the middle
\* of a scroll cycle included, the first frame drawn shows the text at
\* scroll offset 0: the callback that start() registered paints with the
\* offset it finds, so it has to find 0.
C36_FirstFrameAtZero ==
    [][(/\ kind = "marquee"
        /\ Run
        /\ last'.op = "show"
        /\ last'.first
        /\ last'.paint = 1) => _pos = 0]_vars

\* the loop of a display with a forced fps is running
C37_ForcedLoop == run_at = "run_forever" /\ TftDisplay_run_forces_fps

\* the fps ticks registered among the callbacks q
C37_Ticks(q) == {i \in DOMAIN q : q[i].cb = "fps_call"}

\* one fps tick is registered in q, due within 1/fps
C37_TickDue(q) ==
    /\ Cardinality(C37_Ticks(q)) = 1
    /\ \A i \in C37_Ticks(q) : q[i].d <= FramePeriod(fps)

\* this step is an fps tick
C37_FpsTick == RunDisplay /\ done'.op = "fps_call"

\* this step is a request: blit() without force, from the application or
\* from draw_interface()
C37_Request ==
    \/ Blit /\ done'.op = "blit" /\ ~done'.force
    \/ RunDisplay /\ done'.op = "draw_interface"

\* C37: in forced-fps mode with the loop running, a blit() request copies
\* nothing itself and raises the flag, with the next fps tick due within
\* 1/fps; the tick copies the memory buffer to the screen once if the flag
\* is raised (however many requests raised it) and copies nothing if no
\* request came since the previous tick; the flag is down after every tick.
C37_OneCopyPerTick ==
    [][C37_ForcedLoop =>
        /\ C37_TickDue(pending)
        /\ C37_Request =>
              /\ done'.copy = 0
              /\ screen' = screen
              /\ _blit_flag'
              /\ C37_TickDue(pending')
        /\ C37_FpsTick =>
              /\ ~_blit_flag'
              /\ done'.copy = (IF _blit_flag THEN 1 ELSE 0)
              /\ screen' = (IF _blit_flag THEN buffer ELSE screen)
              /\ calls'.copy = (IF _blit_flag THEN Inc(calls.copy)
                                              ELSE calls.copy)]_vars

\* a tick has copied a frame that was requested while the screen showed
\* another one
C37_Witness ==
    /\ C37_ForcedLoop
    /\ done.op = "fps_call"
    /\ done.copy = 1
    /\ ~_blit_flag
    /\ screen = buffer
    /\ screen \in Frames

\* BounceTransition.pos is in its loop, whatever the progress it was given
C38_InLoop == bounce.at = "while"

\* the loop has been left through its break
C38_LoopLeft == bounce.at = "return"

====
